---- MODULE Spec2Model ----
(***************************************************************************)
(* Model of the kubeconform Dagger module (kubeconform/dagger/main.go):    *)
(* the Go function Validate with its helpers kubeConformImage, isGitRepo,  *)
(* parseGitURL, isAnArchive and crdDirs, and the bash script               *)
(* run_kubeconform.sh that Validate executes in the container; and of      *)
(* PreCommitTf.Run (pre-commit-tf/dagger/main.go).                         *)
(*                                                                         *)
(* Strings are sequences of tokens.  A token is an atomic piece of text    *)
(* ("/", "*", " ", ",", a name, an extension); string operations of the    *)
(* code (Split, Trim, Join, glob matching, blank removal, word splitting)  *)
(* are computed on these sequences.                                        *)
(***************************************************************************)
EXTENDS Integers, Sequences, FiniteSets, TLC

VARIABLES
    kustomize,   \* Validate argument: bool
    flux,        \* Validate argument: bool
    catalog,     \* Validate argument: bool
    exclude,     \* Validate argument: string
    crds,        \* Validate argument: list of URL strings
    env,         \* Validate argument: list of "key:value" strings
    manifests,   \* Validate argument: the manifest tree, entries in walk order
    tf,          \* PreCommitTf.Run arguments: version, dir, tfBinary, cache_dir
    ctx,         \* Validate argument: the context, "live" or "cancelled"
    fluxDirs,    \* Flux.Validate arguments: kubeconformVersion and the two directories
    pc,          \* position inside Validate / run_kubeconform.sh
    ctr,         \* the container under construction: env, flux binary, mounts
    dirs,        \* crdDirs: the slice built so far, then the value returned
    crdIdx,      \* crdDirs: index of the next URL of the range loop
    probes,      \* the http.Get probes issued, in order: URL and what came back
    clones,      \* dag.Git(...).Branch(...).Tree().Directory(...) requests
    sh,          \* shell variables of run_kubeconform.sh
    fs,          \* container file system facts the script reads and writes
    ARGS,        \* the ARGS array of the script
    located,     \* lines printed by find_manifests
    words,       \* word list of the for loop
    wi,          \* index of the next word of the for loop
    invoked,     \* pipelines run by the loop, in order
    stage,       \* which stages have completed or failed
    exitStatus,  \* exit status of the script (-1 while not exited)
    ret          \* value returned by Validate

vars == <<kustomize, flux, catalog, exclude, crds, env, manifests, tf, ctx, fluxDirs, pc, ctr,
          dirs, crdIdx, probes, clones, sh, fs, ARGS, located, words, wi,
          invoked, stage, exitStatus, ret>>

inputs == <<kustomize, flux, catalog, exclude, crds, env, manifests, tf, ctx, fluxDirs>>

----------------------------------------------------------------------------
(* Bounds *)

MaxSegs == 4      \* path segments of the generated CRD URLs
MaxCrds == 2      \* CRD sources of one run
MaxExcludeLen == 4 \* tokens of a generated exclude string

----------------------------------------------------------------------------
(* String helpers: Go's strings package and bash expansions *)

RECURSIVE IndexOf(_, _, _)
IndexOf(s, tok, i) ==
    IF i > Len(s) THEN 0
    ELSE IF s[i] = tok THEN i ELSE IndexOf(s, tok, i + 1)

\* strings.Split(s, sep): always at least one element, empty parts kept
RECURSIVE Split(_, _)
Split(s, sep) ==
    LET i == IndexOf(s, sep, 1) IN
    IF i = 0 THEN << s >>
    ELSE << SubSeq(s, 1, i - 1) >> \o Split(SubSeq(s, i + 1, Len(s)), sep)

\* strings.Join(parts, sep)
RECURSIVE Join(_, _)
Join(parts, sep) ==
    IF parts = << >> THEN << >>
    ELSE IF Len(parts) = 1 THEN parts[1]
    ELSE parts[1] \o << sep >> \o Join(Tail(parts), sep)

RECURSIVE TrimLeft(_, _)
TrimLeft(s, c) ==
    IF s # << >> /\ Head(s) = c THEN TrimLeft(Tail(s), c) ELSE s

RECURSIVE TrimRight(_, _)
TrimRight(s, c) ==
    IF s # << >> /\ s[Len(s)] = c THEN TrimRight(SubSeq(s, 1, Len(s) - 1), c) ELSE s

\* strings.Trim(s, cutset) for a one-character cutset
Trim(s, c) == TrimRight(TrimLeft(s, c), c)

\* strconv.Itoa for non-negative numbers: the decimal digits
Digit(d) == CASE d = 0 -> "0" [] d = 1 -> "1" [] d = 2 -> "2" [] d = 3 -> "3"
              [] d = 4 -> "4" [] d = 5 -> "5" [] d = 6 -> "6" [] d = 7 -> "7"
              [] d = 8 -> "8" [] d = 9 -> "9"

RECURSIVE Itoa(_)
Itoa(n) == IF n < 10 THEN << Digit(n) >> ELSE Itoa(n \div 10) \o << Digit(n % 10) >>

----------------------------------------------------------------------------
(* URLs: net/url *)

\* url.Parse on a string  scheme host [port] path...  An invalid percent
\* escape makes Parse fail; otherwise the authority is what stands before the
\* first "/" and the path is the rest.
urlParse(u) ==
    LET rest == Tail(u)
        i    == IndexOf(rest, "/", 1)
        auth == IF i = 0 THEN rest ELSE SubSeq(rest, 1, i - 1)
    IN  [ err  |-> IndexOf(u, "%zz", 1) # 0,
          Host |-> auth,
          Path |-> IF i = 0 THEN << >> ELSE SubSeq(rest, i, Len(rest)) ]

\* (*URL).Hostname(): the host without the port
Hostname(parsedURL) ==
    IF parsedURL.Host # << >> /\ parsedURL.Host[Len(parsedURL.Host)] = ":443"
    THEN SubSeq(parsedURL.Host, 1, Len(parsedURL.Host) - 1)
    ELSE parsedURL.Host

isGitRepo_NoReleases(target_url) ==
    LET parsedURL == urlParse(target_url)
        pathParts == Split(Trim(parsedURL.Path, "/"), "/")
    IN  IF parsedURL.err THEN [ok |-> FALSE, err |-> TRUE]
        ELSE IF Hostname(parsedURL) # << "github.com" >> THEN [ok |-> FALSE, err |-> FALSE]
        ELSE IF Len(pathParts) >= 2 /\ pathParts[1] # << >> /\ pathParts[2] # << >>
             THEN IF Len(pathParts) > 2 /\ pathParts[3] = << "blob" >>
                  THEN [ok |-> FALSE, err |-> FALSE]
                  ELSE [ok |-> TRUE, err |-> FALSE]
             ELSE [ok |-> FALSE, err |-> FALSE]

isGitRepo(target_url) ==
    LET parsedURL == urlParse(target_url)
        pathParts == Split(Trim(parsedURL.Path, "/"), "/")
    IN  IF parsedURL.err THEN [ok |-> FALSE, err |-> TRUE]
        ELSE IF Hostname(parsedURL) # << "github.com" >> THEN [ok |-> FALSE, err |-> FALSE]
        ELSE IF Len(pathParts) >= 2 /\ pathParts[1] # << >> /\ pathParts[2] # << >>
             THEN IF Len(pathParts) > 2
                     /\ (pathParts[3] = << "blob" >> \/ pathParts[3] = << "releases" >>)
                  THEN [ok |-> FALSE, err |-> FALSE]
                  ELSE [ok |-> TRUE, err |-> FALSE]
             ELSE [ok |-> FALSE, err |-> FALSE]

NoGit == [err |-> TRUE, repoURL |-> << >>, branch |-> << >>, subdir |-> << >>]

parseGitURL_Shifted(gitURL) ==
    LET parsedURL == urlParse(gitURL)
        parts     == Split(parsedURL.Path, "/")
    IN  IF parsedURL.err THEN NoGit
        ELSE IF Len(parts) < 5 THEN NoGit
        ELSE [ err     |-> FALSE,
               repoURL |-> << "https://", "github.com", "/" >> \o parts[2]
                              \o << "/" >> \o parts[3] \o << ".git" >>,
               branch  |-> parts[4],
               subdir  |-> Join(SubSeq(parts, 5, Len(parts)), "/") ]

parseGitURL(gitURL) ==
    LET parsedURL == urlParse(gitURL)
        parts     == Split(parsedURL.Path, "/")
    IN  IF parsedURL.err THEN NoGit
        ELSE IF Len(parts) < 5 THEN NoGit
        ELSE [ err     |-> FALSE,
               repoURL |-> << "https://", "github.com", "/" >> \o parts[2]
                              \o << "/" >> \o parts[3] \o << ".git" >>,
               branch  |-> parts[5],
               subdir  |-> Join(SubSeq(parts, 6, Len(parts)), "/") ]

\* path.Base of a URL string: what follows the last "/" (trailing ones dropped)
pathBase(u) ==
    LET t  == TrimRight(u, "/")
        ps == Split(t, "/")
    IN  IF t = << >> THEN << "/" >> ELSE ps[Len(ps)]

----------------------------------------------------------------------------
(* isAnArchive: what the HTTP probe and archives.Identify can answer *)

ProbeOutcomes == {"get_error", "non200", "no_match", "identify_error",
                  "archive", "compression_only"}

\* the (bool, error) pair returned for each outcome of the probe
isAnArchive(outcome) ==
    CASE outcome = "get_error"        -> [ok |-> FALSE, err |-> TRUE]
      [] outcome = "non200"           -> [ok |-> FALSE, err |-> TRUE]
      [] outcome = "no_match"         -> [ok |-> FALSE, err |-> TRUE]
      [] outcome = "identify_error"   -> [ok |-> FALSE, err |-> TRUE]
      [] outcome = "archive"          -> [ok |-> TRUE,  err |-> FALSE]
      [] outcome = "compression_only" -> [ok |-> FALSE, err |-> FALSE]

\* what isAnArchive does with the response body on the return path of each
\* outcome: http.Get gives no response on an error; otherwise the deferred
\* resp.Body.Close() of line 124 runs on return, and no return path reads
\* the rest of the body
isAnArchiveBody(outcome) ==
    IF outcome = "get_error"
    THEN [opened |-> FALSE, closed |-> FALSE, drained |-> FALSE]
    ELSE [opened |-> TRUE, closed |-> TRUE, drained |-> FALSE]

----------------------------------------------------------------------------
(* Input domains *)

RECURSIVE SeqsUpTo(_, _)
SeqsUpTo(S, n) ==
    IF n = 0 THEN { << >> }
    ELSE LET shorter == SeqsUpTo(S, n - 1) IN
         shorter \cup { Append(q, x) : q \in { r \in shorter : Len(r) = n - 1 }, x \in S }

\* a URL string from its host and the segments of its path
MkURL(host, segs) ==
    << "https://" >> \o host \o (IF segs = << >> THEN << >> ELSE << "/" >> \o Join(segs, "/"))

GitHub == << "github.com" >>

SegAlphabet == { << >>, << "o" >>, << "tree" >>, << "blob" >>, << "releases" >> }
Hosts == { GitHub, << "github.com", ":443" >>, << "example.com" >> }
Names == { << "owner" >>, << "repo" >>, << "main" >> }

\* browse URLs of the shape owner/repo/tree/branch/sub/dir
TreeURLs ==
    { MkURL(GitHub, << o, r, << "tree" >>, b, << "config" >>, << "crd" >> >>) :
        o \in Names, r \in Names, b \in Names }

GeneratedURLs ==
    { MkURL(h, segs) : h \in Hosts, segs \in SeqsUpTo(SegAlphabet, MaxSegs) }
    \cup TreeURLs
    \cup { MkURL(GitHub, << << "o" >>, << "%zz" >> >>) }

\* the CRD sources of a full run
U_tree  == MkURL(GitHub, << << "org" >>, << "repo" >>, << "tree" >>, << "main" >>,
                            << "config" >>, << "crd" >> >>)
U_short == MkURL(GitHub, << << "org" >>, << "repo" >> >>)
U_blob  == MkURL(GitHub, << << "org" >>, << "repo" >>, << "blob" >>, << "main" >>,
                            << "crd", ".yaml" >> >>)
U_bad   == MkURL(GitHub, << << "org" >>, << "%zz" >> >>)
RunURLs == { U_tree, U_short, U_blob, U_bad }

EnvLists ==
    { << >>,
      << << "cluster", ":", "prod" >> >>,
      << << "flux", ":", "1" >> >>,
      << << "catalog", ":", "1" >> >>,
      << << "cluster", ":", "prod" >>, << "domain" >> >>,
      << << "url", ":", "https", ":", "//x" >> >> }

----------------------------------------------------------------------------
(* kubeConformImage, crdDirs and the mounts of Validate *)

NoRet == [done |-> FALSE, stdout |-> << >>, err |-> FALSE]
ErrRet == [done |-> TRUE, stdout |-> << >>, err |-> TRUE]

EmptyCtr == [env |-> << >>, fluxBin |-> FALSE, mounts |-> << >>, script |-> FALSE]

\* the loop over env of kubeConformImage: the pairs set so far, or an error
RECURSIVE envPairs(_)
envPairs(es) ==
    IF es = << >> THEN [err |-> FALSE, pairs |-> << >>]
    ELSE LET parts == Split(Head(es), ":")
             rest  == envPairs(Tail(es))
         IN  IF Len(parts) # 2 THEN [err |-> TRUE, pairs |-> << >>]
             ELSE IF rest.err THEN rest
             ELSE [err |-> FALSE, pairs |-> << << parts[1], parts[2] >> >> \o rest.pairs]

\* Validate lines 228-231: ctr, err := kubeConformImage(...)
kubeConformImage_NoCheck ==
    /\ pc = "image"
    /\ ctr' = [ctr EXCEPT !.fluxBin = flux]
    /\ pc' = "crdDirs"
    /\ stage' = [stage EXCEPT !.env = "ok"]
    /\ UNCHANGED <<inputs, dirs, crdIdx, probes, clones, sh, fs, ARGS, located,
                   words, wi, invoked, exitStatus, ret>>

kubeConformImage ==
    /\ pc = "image"
    /\ LET r == envPairs(env) IN
       IF r.err
       THEN /\ ret' = ErrRet
            /\ pc' = "done"
            /\ stage' = [stage EXCEPT !.env = "failed"]
            /\ UNCHANGED ctr
       ELSE /\ ctr' = [ctr EXCEPT !.env = r.pairs, !.fluxBin = flux]
            /\ pc' = "crdDirs"
            /\ stage' = [stage EXCEPT !.env = "ok"]
            /\ UNCHANGED ret
    /\ UNCHANGED <<inputs, dirs, crdIdx, probes, clones, sh, fs, ARGS, located,
                   words, wi, invoked, exitStatus>>

\* crdDirs returns nil and an error; Validate lines 234-236 return "" and an error
CrdDirsFail_Continue ==
    /\ crdIdx' = crdIdx + 1
    /\ UNCHANGED <<dirs, ret, pc, stage, clones>>

CrdDirsFail_Partial ==
    /\ ret' = ErrRet
    /\ pc' = "done"
    /\ stage' = [stage EXCEPT !.classify = "failed"]
    /\ UNCHANGED <<dirs, crdIdx, clones>>

CrdDirsFail ==
    /\ dirs' = << >>
    /\ ret' = ErrRet
    /\ pc' = "done"
    /\ stage' = [stage EXCEPT !.classify = "failed"]
    /\ UNCHANGED <<crdIdx, clones>>

\* one iteration of the range loop of crdDirs
crdDirsIter_ProbeUnparsed ==
    /\ pc = "crdDirs"
    /\ crdIdx <= Len(crds)
    /\ LET crdURL == crds[crdIdx]
           isRepo == isGitRepo(crdURL)
       IN  IF isRepo.err
           THEN /\ CrdDirsFail
                /\ probes' = Append(probes, [url |-> crdURL, outcome |-> "get_error",
                                             body |-> isAnArchiveBody("get_error")])
           ELSE IF isRepo.ok
           THEN LET g == parseGitURL(crdURL) IN
                IF g.err
                THEN CrdDirsFail /\ UNCHANGED probes
                ELSE /\ dirs' = Append(dirs, [kind |-> "git", url |-> g.repoURL,
                                              branch |-> g.branch, sub |-> g.subdir])
                     /\ clones' = Append(clones, g.repoURL)
                     /\ crdIdx' = crdIdx + 1
                     /\ UNCHANGED <<probes, ret, pc, stage>>
           ELSE \E outcome \in ProbeOutcomes :
                LET isArchive == isAnArchive(outcome) IN
                /\ probes' = Append(probes, [url |-> crdURL, outcome |-> outcome,
                                             body |-> isAnArchiveBody(outcome)])
                /\ IF isArchive.err
                   THEN CrdDirsFail
                   ELSE /\ dirs' = Append(dirs,
                               [kind   |-> IF isArchive.ok THEN "archive" ELSE "file",
                                url    |-> crdURL,
                                branch |-> << >>,
                                sub    |-> pathBase(crdURL)])
                        /\ crdIdx' = crdIdx + 1
                        /\ UNCHANGED <<clones, ret, pc, stage>>
    /\ UNCHANGED <<inputs, ctr, sh, fs, ARGS, located, words, wi, invoked, exitStatus>>

crdDirsIter ==
    /\ pc = "crdDirs"
    /\ crdIdx <= Len(crds)
    /\ LET crdURL == crds[crdIdx]
           isRepo == isGitRepo(crdURL)
       IN  IF isRepo.err
           THEN CrdDirsFail /\ UNCHANGED probes
           ELSE IF isRepo.ok
           THEN LET g == parseGitURL(crdURL) IN
                IF g.err
                THEN CrdDirsFail /\ UNCHANGED probes
                ELSE /\ dirs' = Append(dirs, [kind |-> "git", url |-> g.repoURL,
                                              branch |-> g.branch, sub |-> g.subdir])
                     /\ clones' = Append(clones, g.repoURL)
                     /\ crdIdx' = crdIdx + 1
                     /\ UNCHANGED <<probes, ret, pc, stage>>
           ELSE \E outcome \in ProbeOutcomes :
                LET isArchive == isAnArchive(outcome) IN
                /\ probes' = Append(probes, [url |-> crdURL, outcome |-> outcome,
                                             body |-> isAnArchiveBody(outcome)])
                /\ IF isArchive.err
                   THEN CrdDirsFail
                   ELSE /\ dirs' = Append(dirs,
                               [kind   |-> IF isArchive.ok THEN "archive" ELSE "file",
                                url    |-> crdURL,
                                branch |-> << >>,
                                sub    |-> pathBase(crdURL)])
                        /\ crdIdx' = crdIdx + 1
                        /\ UNCHANGED <<clones, ret, pc, stage>>
    /\ UNCHANGED <<inputs, ctr, sh, fs, ARGS, located, words, wi, invoked, exitStatus>>

\* the range loop is over: crdDirs returns dirs, nil (line 178)
crdDirsReturn_Early ==
    /\ pc = "crdDirs"
    /\ pc' = "mount"
    /\ stage' = [stage EXCEPT !.classify = "ok"]
    /\ UNCHANGED <<inputs, ctr, dirs, crdIdx, probes, clones, sh, fs, ARGS, located,
                   words, wi, invoked, exitStatus, ret>>

crdDirsReturn ==
    /\ pc = "crdDirs"
    /\ crdIdx > Len(crds)
    /\ pc' = "mount"
    /\ stage' = [stage EXCEPT !.classify = "ok"]
    /\ UNCHANGED <<inputs, ctr, dirs, crdIdx, probes, clones, sh, fs, ARGS, located,
                   words, wi, invoked, exitStatus, ret>>

\* Validate lines 238-245 and 367-369: the mounts and the script file
MountPath_NoIndex(idx) == << "/crds/" >>

MountPath(idx) == << "/crds/" >> \o Itoa(idx)

Mount ==
    /\ pc = "mount"
    /\ ctr' = [ctr EXCEPT
                 !.mounts = [i \in 1..Len(dirs) |->
                               [path |-> MountPath(i - 1), dir |-> dirs[i]]],
                 !.script = TRUE]
    /\ pc' = "exec"
    /\ UNCHANGED <<inputs, dirs, crdIdx, probes, clones, sh, fs, ARGS, located, words,
                   wi, invoked, stage, exitStatus, ret>>

----------------------------------------------------------------------------
(* find_manifests: bash's read -a, ${x// /}, find's -path / -name / -prune *)

\* fnmatch as find uses it for -path and -name: "*" matches any run of text,
\* "/" and a leading "." included; every other token matches itself
RECURSIVE Glob(_, _)
Glob(p, s) ==
    IF p = << >> THEN s = << >>
    ELSE IF Head(p) = "*"
         THEN Glob(Tail(p), s) \/ (s # << >> /\ Glob(p, Tail(s)))
         ELSE s # << >> /\ Head(s) = Head(p) /\ Glob(Tail(p), Tail(s))

\* ${x// /}: every blank removed
RemoveBlanks(s) == SelectSeq(s, LAMBDA t : t # " ")

\* IFS=',' read -r -a arr <<< "$s": the fields, a last empty field dropped
ReadArray(s) ==
    IF s = << >> THEN << >>
    ELSE LET parts == Split(s, ",") IN
         IF parts[Len(parts)] = << >> THEN SubSeq(parts, 1, Len(parts) - 1) ELSE parts

\* the part of a path after its last "/"
RECURSIVE LastIndexOf(_, _, _)
LastIndexOf(s, tok, i) ==
    IF i = 0 THEN 0
    ELSE IF s[i] = tok THEN i ELSE LastIndexOf(s, tok, i - 1)

BaseName(path) == SubSeq(path, LastIndexOf(path, "/", Len(path)) + 1, Len(path))

\* dirname(1)
DirName(path) ==
    LET i == LastIndexOf(path, "/", Len(path)) IN
    IF i = 0 THEN << "." >>
    ELSE IF i = 1 THEN << "/" >>
    ELSE SubSeq(path, 1, i - 1)

\* the directories a path lies under
Ancestors(path) == { SubSeq(path, 1, i - 1) : i \in { j \in 1..Len(path) : path[j] = "/" } }

\* the -path arguments that find_manifests builds (line 303)
PathArgs(exclude_string) ==
    LET exclude_array == ReadArray(exclude_string) IN
    { RemoveBlanks(exclude_array[i]) : i \in 1..Len(exclude_array) }

\* the -name arguments that find_manifests builds (line 308)
NameArgs(search_patterns) ==
    LET pattern_array == ReadArray(search_patterns) IN
    { RemoveBlanks(pattern_array[i]) : i \in 1..Len(pattern_array) }

\* find $dir -path E1 -prune -o ... \( -name P1 -o ... \) -type f -print
\* over the entries of the tree in walk order: an entry below a pruned
\* directory is not visited; a visited entry matching an -path argument is
\* pruned; any other visited entry is printed when it is a regular file whose
\* base name matches a -name argument.
find_manifests(tree, search_patterns, exclude_string) ==
    LET paths   == PathArgs(exclude_string)
        names   == NameArgs(search_patterns)
        Pruned(path)  == \E e \in paths : Glob(e, path)
        Visited(path) == \A a \in Ancestors(path) : ~ Pruned(a)
        Printed(ent)  == /\ Visited(ent.path)
                         /\ ~ Pruned(ent.path)
                         /\ \E n \in names : Glob(n, BaseName(ent.path))
                         /\ ent.type = "f"
        hits    == SelectSeq(tree, Printed)
    IN  [i \in 1..Len(hits) |-> hits[i].path]

\* word splitting of $(find_manifests ...) on blanks and newlines
RECURSIVE WordSplit(_)
WordSplit(lines) ==
    IF lines = << >> THEN << >>
    ELSE SelectSeq(Split(Head(lines), " "), LAMBDA w : w # << >>) \o WordSplit(Tail(lines))

KustomizePatterns_YamlOnly == << "kustomization", ".yaml" >>

KustomizePatterns == << "kustomization", ".yaml", ",", "kustomization", ".yml" >>
PlainPatterns == << "*", ".yaml", ",", "*", ".yml" >>

----------------------------------------------------------------------------
(* Manifest trees: entries in directory-walk order *)

D(path) == [path |-> path, type |-> "d"]
F(path) == [path |-> path, type |-> "f"]

TreeEmpty == << D(<< "." >>) >>

TreeApp ==
    << D(<< "." >>),
       D(<< ".", "/", "app" >>),
       F(<< ".", "/", "app", "/", "deployment", ".yaml" >>),
       F(<< ".", "/", "app", "/", "kustomization", ".yaml" >>),
       D(<< ".", "/", "infra" >>),
       D(<< ".", "/", "infra", "/", "terraform" >>),
       F(<< ".", "/", "infra", "/", "terraform", "/", "module", ".yaml" >>),
       F(<< ".", "/", "notes", ".json" >>),
       D(<< ".", "/", "overlays" >>),
       D(<< ".", "/", "overlays", "/", "prod" >>),
       F(<< ".", "/", "overlays", "/", "prod", "/", "kustomization", ".yaml" >>) >>

TreeBlank ==
    << D(<< "." >>),
       D(<< ".", "/", "my", " ", "dir" >>),
       F(<< ".", "/", "my", " ", "dir", "/", "kustomization", ".yml" >>),
       D(<< ".", "/", "terraform" >>),
       F(<< ".", "/", "terraform", "/", "main", ".yml" >>),
       F(<< ".", "/", "top", ".yaml" >>),
       F(<< ".", "/", ".gitignore" >>) >>

Trees == { TreeEmpty, TreeApp, TreeBlank }

\* a tree with the entries the documentation of exclude names, and a
\* directory whose name ends in .yaml
TreeDocs ==
    << D(<< "." >>),
       D(<< ".", "/", ".github" >>),
       F(<< ".", "/", ".github", "/", "ci", ".yml" >>),
       F(<< ".", "/", ".gitignore" >>),
       F(<< ".", "/", "app", ".yaml" >>),
       D(<< ".", "/", "conf", ".yaml" >>),
       F(<< ".", "/", "conf", ".yaml", "/", "kustomization", ".yaml" >>),
       F(<< ".", "/", "notes", ".txt" >>),
       D(<< ".", "/", "terraform" >>),
       F(<< ".", "/", "terraform", "/", "main", ".yaml" >>) >>

\* a tree with kustomizations in its root, in a directory whose name holds
\* a blank and in a directory named as the part after that blank
TreeSplit ==
    << D(<< "." >>),
       D(<< ".", "/", "dir" >>),
       F(<< ".", "/", "dir", "/", "kustomization", ".yaml" >>),
       F(<< ".", "/", "kustomization", ".yaml" >>),
       D(<< ".", "/", "my", " ", "dir" >>),
       F(<< ".", "/", "my", " ", "dir", "/", "kustomization", ".yaml" >>) >>

ScriptFile == F(<< ".", "/", "run_kubeconform", ".sh" >>)

\* exclude strings of a full run
RunExcludes ==
    { << >>,
      << "*", "/", "terraform", "/", "*" >>,
      << ".", "/", "terraform", ",", ".gitignore" >>,
      << ".", "/", "my", " ", "dir" >> }

ExcludeAlphabet == { ".", "/", "*", ",", " ", "terraform", "my", "dir" }

GeneratedExcludes == SeqsUpTo(ExcludeAlphabet, MaxExcludeLen) \cup RunExcludes

\* exclude strings written as the documentation writes them (lines 197-199
\* and the README), and file names
DocExcludes ==
    { << >>,
      << ".", "/", "terraform", ",", ".gitignore" >>,
      << ".", "/", "terraform" >>,
      << ".gitignore" >>,
      << ".github", "/", "*" >>,
      << "app", ".yaml" >>,
      << "*", ".yml" >>,
      << ".", "/", "conf", ".yaml", ",", " ", ".", "/", ".github" >> }

----------------------------------------------------------------------------
(* Validate lines 366-389: the command line and the execution of the script *)

\* kubeconform_command without "bash /work/run_kubeconform.sh" (lines 371-383)
kubeconform_command ==
    (IF kustomize THEN << << "--kustomize" >> >> ELSE << >>)
    \o (IF flux THEN << << "--flux" >> >> ELSE << >>)
    \o (IF catalog THEN << << "--catalog" >> >> ELSE << >>)
    \o (IF exclude # << >> THEN << << "--exclude" >>, exclude >> ELSE << >>)

\* the value a shell variable inherits from the environment of the container
\* (the last WithEnvVariable of that name), empty when there is none
RECURSIVE EnvLookup(_, _)
EnvLookup(pairs, name) ==
    IF pairs = << >> THEN << >>
    ELSE LET last == pairs[Len(pairs)] IN
         IF last[1] = name THEN last[2]
         ELSE EnvLookup(SubSeq(pairs, 1, Len(pairs) - 1), name)

\* the while/case loop over the options that getopt has normalised (258-289)
RECURSIVE ParseOptions(_, _)
ParseOptions(args, v) ==
    IF args = << >> THEN v
    ELSE IF Head(args) = << "--kustomize" >>
         THEN ParseOptions(Tail(args), [v EXCEPT !.kustomize = << "1" >>])
    ELSE IF Head(args) = << "--flux" >>
         THEN ParseOptions(Tail(args), [v EXCEPT !.flux = << "1" >>])
    ELSE IF Head(args) = << "--catalog" >>
         THEN ParseOptions(Tail(args), [v EXCEPT !.catalog = << "1" >>])
    ELSE IF Head(args) = << "--exclude" >> /\ Len(args) >= 2
         THEN ParseOptions(Tail(Tail(args)), [v EXCEPT !.exclude = args[2]])
    ELSE v

\* [ $x -eq 1 ] with $x unquoted: false, with a message, when x is empty
TestEq1(x) == x = << "1" >>

NoSh == [kustomize |-> << >>, flux |-> << >>, catalog |-> << >>, exclude |-> << >>,
         manifests_dir |-> << >>]

NoFs == [crdsDir |-> FALSE, pool |-> << >>, work |-> << >>, schemasDir |-> FALSE,
         schemas |-> << >>, converted |-> << >>, stdout |-> << >>]

\* what the mounted CRD directories can hold
CrdDoc   == [name |-> << "crd", ".yaml" >>, parses |-> TRUE, kind |-> "CustomResourceDefinition"]
OtherDoc == [name |-> << "deploy", ".yml" >>, parses |-> TRUE, kind |-> "Deployment"]
BadDoc   == [name |-> << "broken", ".yaml" >>, parses |-> FALSE, kind |-> ""]
TextDoc  == [name |-> << "README", ".md" >>, parses |-> FALSE, kind |-> ""]

CrdPools == { << >>, << CrdDoc >>, << OtherDoc >>, << CrdDoc, OtherDoc >>,
              << BadDoc, TextDoc >> }

\* ctr.WithExec(kubeconform_command).Stdout(ctx), lines 384-387: the container
\* is built (image, downloads, clones), which can fail; then bash starts the
\* script, whose variables come from the environment and lines 252-253.
\* Stdout takes ctx: with a cancelled context it returns an error
Exec ==
    /\ pc = "exec"
    /\ \E built \in (IF ctx = "cancelled" THEN { FALSE } ELSE BOOLEAN) :
       IF ~ built
       THEN /\ ret' = ErrRet
            /\ pc' = "done"
            /\ stage' = [stage EXCEPT !.materialize = "failed"]
            /\ UNCHANGED <<sh, fs>>
       ELSE /\ \E pool \in (IF ctr.mounts = << >> THEN { << >> } ELSE CrdPools) :
                 fs' = [crdsDir |-> ctr.mounts # << >>, pool |-> pool,
                        work |-> Append(manifests, ScriptFile), schemasDir |-> FALSE,
                        schemas |-> << >>, converted |-> << >>, stdout |-> << >>]
            /\ sh' = [kustomize     |-> << "0" >>,
                      manifests_dir |-> << "." >>,
                      flux          |-> EnvLookup(ctr.env, << "flux" >>),
                      catalog       |-> EnvLookup(ctr.env, << "catalog" >>),
                      exclude       |-> EnvLookup(ctr.env, << "exclude" >>)]
            /\ pc' = "sh_options"
            /\ stage' = [stage EXCEPT !.materialize = "ok"]
            /\ UNCHANGED ret
    /\ UNCHANGED <<inputs, ctr, dirs, crdIdx, probes, clones, ARGS, located, words, wi,
                   invoked, exitStatus>>

\* lines 255-289
ScriptOptions ==
    /\ pc = "sh_options"
    /\ sh' = ParseOptions(kubeconform_command, sh)
    /\ pc' = "sh_convert"
    /\ UNCHANGED <<inputs, ctr, dirs, crdIdx, probes, clones, fs, ARGS, located, words,
                   wi, invoked, stage, exitStatus, ret>>

----------------------------------------------------------------------------
(* lines 315-325: conversion of the CRDs *)

IsYamlName(name) == Glob(<< "*", ".yaml" >>, name) \/ Glob(<< "*", ".yml" >>, name)

\* the files of /crds on which the if of line 319 runs openapi2jsonschema.py:
\* yq prints true or false and exits 0 whenever the file parses
ConverterInputs(pool) == SelectSeq(pool, LAMBDA d : IsYamlName(d.name) /\ d.parses)

\* the schema files openapi2jsonschema.py writes into the working directory
SchemaOf(d) == << "schema_of_" >> \o d.name \o << ".json" >>
ConverterOutputs(ins) ==
    LET crdsOnly == SelectSeq(ins, LAMBDA d : d.kind = "CustomResourceDefinition") IN
    [i \in 1..Len(crdsOnly) |-> F(<< ".", "/" >> \o SchemaOf(crdsOnly[i]))]

\* ./*.json : the regular entries of the working directory itself named *.json
IsTopJson(ent) ==
    /\ Len(SelectSeq(ent.path, LAMBDA t : t = "/")) = 1
    /\ Glob(<< "*", ".json" >>, BaseName(ent.path))
    /\ ~ Glob(<< ".", "*" >>, BaseName(ent.path))

ScriptConvert ==
    /\ pc = "sh_convert"
    /\ IF ~ fs.crdsDir
       THEN /\ fs' = [fs EXCEPT !.schemasDir = TRUE]
            /\ pc' = "sh_args"
            /\ stage' = [stage EXCEPT !.convert = "ok"]
            /\ UNCHANGED exitStatus
       ELSE LET ins == ConverterInputs(fs.pool) IN
            \E convOk \in (IF ins = << >> THEN { TRUE } ELSE BOOLEAN) :
              IF ~ convOk
              THEN /\ fs' = [fs EXCEPT !.schemasDir = TRUE, !.converted = ins]
                   /\ exitStatus' = 1
                   /\ pc' = "exited"
                   /\ stage' = [stage EXCEPT !.convert = "converter_failed"]
              ELSE LET work2 == fs.work \o ConverterOutputs(ins)
                       moved == SelectSeq(work2, IsTopJson)
                   IN  IF moved = << >>
                       THEN /\ fs' = [fs EXCEPT !.schemasDir = TRUE, !.converted = ins]
                            /\ exitStatus' = 1
                            /\ pc' = "exited"
                            /\ stage' = [stage EXCEPT !.convert = "mv_failed"]
                       ELSE /\ fs' = [fs EXCEPT !.schemasDir = TRUE, !.converted = ins,
                                        !.schemas = moved,
                                        !.work = SelectSeq(work2, LAMBDA e : ~ IsTopJson(e))]
                            /\ pc' = "sh_args"
                            /\ stage' = [stage EXCEPT !.convert = "ok"]
                            /\ UNCHANGED exitStatus
    /\ UNCHANGED <<inputs, ctr, dirs, crdIdx, probes, clones, sh, ARGS, located, words,
                   wi, invoked, ret>>

----------------------------------------------------------------------------
(* lines 327-336: the arguments of the validator *)

LocalTemplate == "/schemas/{{.ResourceKind}}_{{.ResourceAPIVersion}}.json"
CatalogTemplate == "https://raw.githubusercontent.com/datreeio/CRDs-catalog/main/{{.Group}}/{{.ResourceKind}}_{{.ResourceAPIVersion}}.json"

BaseArgs_NoIgnore == << "-summary", "--strict", "-schema-location", "default" >>

BaseArgs == << "-summary", "--strict", "-ignore-missing-schemas", "-schema-location", "default" >>

\* find $1 -type f -print -quit, where no positional parameter is left after
\* the option loop: find searches the working directory
FindDollar1NonEmpty == \E i \in 1..Len(fs.work) : fs.work[i].type = "f"

ScriptArgs ==
    /\ pc = "sh_args"
    /\ ARGS' = BaseArgs
               \o (IF FindDollar1NonEmpty THEN << "--schema-location", LocalTemplate >> ELSE << >>)
               \o (IF TestEq1(sh.catalog) THEN << "--schema-location", CatalogTemplate >> ELSE << >>)
    /\ pc' = "sh_locate"
    /\ UNCHANGED <<inputs, ctr, dirs, crdIdx, probes, clones, sh, fs, located, words,
                   wi, invoked, stage, exitStatus, ret>>

----------------------------------------------------------------------------
(* lines 338-363: the main loop *)

\* the word list of the for loop: $(find_manifests "$manifests_dir" ... "$exclude")
ScriptLocate ==
    /\ pc = "sh_locate"
    /\ LET lines == find_manifests(fs.work,
                                   IF TestEq1(sh.kustomize) THEN KustomizePatterns
                                                            ELSE PlainPatterns,
                                   sh.exclude)
       IN  /\ located' = lines
           /\ words' = WordSplit(lines)
    /\ wi' = 1
    /\ pc' = "sh_loop"
    /\ UNCHANGED <<inputs, ctr, dirs, crdIdx, probes, clones, sh, fs, ARGS, invoked,
                   stage, exitStatus, ret>>

\* a path given to a command that runs in the manifest root (WithWorkdir,
\* line 245), as the tree names it: dir/x is ./dir/x
Resolve(path) ==
    IF path = << "." >> \/ (Len(path) >= 1 /\ path[1] = "/")
          \/ (Len(path) >= 2 /\ path[1] = "." /\ path[2] = "/")
    THEN path
    ELSE << ".", "/" >> \o path

IsFileOf(tree, path) == \E i \in 1..Len(tree) : tree[i] = F(Resolve(path))

\* a directory of the tree that holds a kustomization file
IsBuildable(tree, dir) ==
    \E i \in 1..Len(tree) :
        /\ tree[i].type = "f"
        /\ DirName(tree[i].path) = Resolve(dir)
        /\ BaseName(tree[i].path) \in { << "kustomization", ".yaml" >>,
                                        << "kustomization", ".yml" >> }

\* the tools of the pipeline that the loop body runs for one word
Pipeline ==
    IF TestEq1(sh.kustomize)
    THEN IF TestEq1(sh.flux) THEN << "kustomize", "flux", "kubeconform" >>
                             ELSE << "kustomize", "kubeconform" >>
    ELSE << "kubeconform" >>

\* the then-branch of the if of lines 342-345, 347-350 and 357-360:
\* echo "Validation failed for $file"; exit 1
FailedStep_Continue ==
    /\ wi' = wi + 1
    /\ UNCHANGED <<pc, exitStatus>>

FailedStep ==
    /\ exitStatus' = 1
    /\ pc' = "exited"
    /\ UNCHANGED wi

\* one iteration of the for loop (lines 339-353 or 355-362)
ScriptIter ==
    /\ pc = "sh_loop"
    /\ wi <= Len(words)
    /\ LET file  == words[wi]
           tools == Pipeline
           kz    == TestEq1(sh.kustomize)
       IN
       \E buildOk \in (IF kz /\ IsBuildable(fs.work, DirName(file)) THEN BOOLEAN ELSE { FALSE }),
          substOk \in (IF ctr.fluxBin THEN BOOLEAN ELSE { FALSE }),
          valid   \in (IF kz \/ IsFileOf(fs.work, file) THEN BOOLEAN ELSE { FALSE }) :
         LET used   == { tools[i] : i \in 1..Len(tools) }
             \* the commands of the pipeline that exit non-zero
             failed == { t \in used : \/ t = "kustomize" /\ ~ buildOk
                                      \/ t = "flux" /\ ~ substOk
                                      \/ t = "kubeconform" /\ ~ valid }
             \* pipefail: the pipeline succeeds when every command does
             status == failed = { }
             run == [file   |-> file,
                     tools  |-> tools,
                     build  |-> IF kz THEN DirName(file) ELSE << >>,
                     input  |-> IF kz THEN << "-" >> ELSE file,
                     args   |-> ARGS,
                     failed |-> failed,
                     passed |-> status]
         IN  /\ invoked' = Append(invoked, run)
             /\ IF status
                THEN /\ wi' = wi + 1
                     /\ fs' = [fs EXCEPT !.stdout = fs.stdout \o << "Processing", "Validation successful" >>]
                     /\ UNCHANGED <<pc, exitStatus>>
                ELSE /\ FailedStep
                     /\ fs' = [fs EXCEPT !.stdout = fs.stdout \o << "Processing", "Validation failed" >>]
    /\ stage' = [stage EXCEPT !.validate = "started"]
    /\ UNCHANGED <<inputs, ctr, dirs, crdIdx, probes, clones, sh, ARGS, located, words, ret>>

\* the word list is exhausted: the script ends with status 0
ScriptEnd_EmptyFails ==
    /\ pc = "sh_loop"
    /\ wi > Len(words)
    /\ exitStatus' = IF words = << >> THEN 1 ELSE 0
    /\ pc' = "exited"
    /\ UNCHANGED <<inputs, ctr, dirs, crdIdx, probes, clones, sh, fs, ARGS, located, words,
                   wi, invoked, stage, ret>>

ScriptEnd ==
    /\ pc = "sh_loop"
    /\ wi > Len(words)
    /\ exitStatus' = 0
    /\ pc' = "exited"
    /\ UNCHANGED <<inputs, ctr, dirs, crdIdx, probes, clones, sh, fs, ARGS, located, words,
                   wi, invoked, stage, ret>>

\* lines 384-389: Stdout returns an error when the script exits non-zero
StdoutResult_IgnoreStatus(status, out) == [done |-> TRUE, stdout |-> out, err |-> FALSE]

StdoutResult(status, out) ==
    IF status # 0 THEN ErrRet ELSE [done |-> TRUE, stdout |-> out, err |-> FALSE]

ValidateReturn ==
    /\ pc = "exited"
    /\ ret' = StdoutResult(exitStatus, fs.stdout)
    /\ pc' = "done"
    /\ UNCHANGED <<inputs, ctr, dirs, crdIdx, probes, clones, sh, fs, ARGS, located, words,
                   wi, invoked, stage, exitStatus>>

----------------------------------------------------------------------------
(* pre-commit-tf/dagger/main.go: PreCommitTf.Run *)

\* the arguments of Run; NoTf when the call is not a call of Run
NoTf == [version |-> << >>, dir |-> << >>, tfBinary |-> << >>, cache_dir |-> FALSE]

Versions == { << "v1.92.0" >>, << "latest" >> }
TfBinaries == { << "terraform" >>, << "tofu" >>, << "/", "opt", "/", "tofu" >> }

\* the environment block of a process started in a container: one string
\* name=value per variable of the container, in the order they were set
Environ(pairs) == [i \in 1..Len(pairs) |-> pairs[i][1] \o << "=" >> \o pairs[i][2]]

\* getenv in that process: the text after the first "=" of the first string
\* whose text before its first "=" is the name
Getenv(envp, name) ==
    LET hits == SelectSeq(envp, LAMBDA str :
                    LET i == IndexOf(str, "=", 1) IN
                    i > 0 /\ SubSeq(str, 1, i - 1) = name)
    IN  IF hits = << >> THEN [set |-> FALSE, value |-> << >>]
        ELSE [set   |-> TRUE,
              value |-> SubSeq(hits[1], IndexOf(hits[1], "=", 1) + 1, Len(hits[1]))]

\* lines 42-49: the container from the image, the cache mount and variable
Run_Container ==
    /\ pc = "run"
    /\ ctr' = IF tf.cache_dir
              THEN [ctr EXCEPT
                      !.mounts = Append(ctr.mounts, [path |-> << "/tf_cache" >>,
                                                      dir  |-> "cache_dir"]),
                      !.env = Append(ctr.env, << << "TF_PLUGIN_CACHE_DIR" >>,
                                                 << "/tf_cache" >> >>)]
              ELSE ctr
    /\ pc' = "run_env"
    /\ UNCHANGED <<inputs, dirs, crdIdx, probes, clones, sh, fs, ARGS, located, words,
                   wi, invoked, stage, exitStatus, ret>>

\* lines 51-53: WithEnvVariable("PCT_TFPATH=", tfBinary), the mount of dir
\* at /mnt and the working directory
Run_Env ==
    /\ pc = "run_env"
    /\ ctr' = [ctr EXCEPT
                 !.env = Append(ctr.env, << << "PCT_TFPATH", "=" >>, tf.tfBinary >>),
                 !.mounts = Append(ctr.mounts, [path |-> << "/mnt" >>, dir |-> tf.dir])]
    /\ pc' = "run_exec"
    /\ UNCHANGED <<inputs, dirs, crdIdx, probes, clones, sh, fs, ARGS, located, words,
                   wi, invoked, stage, exitStatus, ret>>

\* lines 54-55: WithExec({"run", "-a"}).Stdout(ctx).  The engine either
\* refuses the container (image pull, or the variable name holding "=") or
\* starts the entrypoint with the environment block of the container; the
\* variables pre-commit-terraform reads are kept in sh
Run_Exec ==
    /\ pc = "run_exec"
    /\ \E started \in BOOLEAN :
       IF ~ started
       THEN /\ ret' = ErrRet
            /\ UNCHANGED <<sh, fs, exitStatus>>
       ELSE \E status \in { 0, 1 } :
            /\ sh' = [PCT_TFPATH |-> Getenv(Environ(ctr.env), << "PCT_TFPATH" >>),
                      TF_PLUGIN_CACHE_DIR |-> Getenv(Environ(ctr.env),
                                                     << "TF_PLUGIN_CACHE_DIR" >>)]
            /\ fs' = [fs EXCEPT !.work = tf.dir, !.stdout = << "pre-commit" >>]
            /\ exitStatus' = status
            /\ ret' = StdoutResult(status, << "pre-commit" >>)
    /\ pc' = "done"
    /\ UNCHANGED <<inputs, ctr, dirs, crdIdx, probes, clones, ARGS, located, words,
                   wi, invoked, stage>>

----------------------------------------------------------------------------
(* flux/dagger/main.go: Flux.Validate and its run_kubeconform.sh *)

\* the arguments of Flux.Validate; NoFluxDirs when the call is not one of it
NoFluxDirs == [version |-> << >>, clusters |-> << >>, kustomize |-> << >>]

KubeconformVersions == { << "v0.6.4" >>, << "v0.6.7" >> }

FluxClustersTree ==
    << D(<< "/clusters" >>),
       D(<< "/clusters", "/", "prod" >>),
       F(<< "/clusters", "/", "prod", "/", ".tfsec", ".yaml" >>),
       F(<< "/clusters", "/", "prod", "/", "apps", ".yml" >>),
       F(<< "/clusters", "/", "prod", "/", "flux", ".yaml" >>),
       D(<< "/clusters", "/", "terraform" >>),
       F(<< "/clusters", "/", "terraform", "/", "main", ".yaml" >>) >>

FluxKustomizeTree ==
    << D(<< "/kustomize" >>),
       D(<< "/kustomize", "/", ".github" >>),
       F(<< "/kustomize", "/", ".github", "/", "kustomization", ".yaml" >>),
       D(<< "/kustomize", "/", "apps" >>),
       F(<< "/kustomize", "/", "apps", "/", "deploy", ".yaml" >>),
       F(<< "/kustomize", "/", "apps", "/", "kustomization", ".yaml" >>),
       D(<< "/kustomize", "/", "infra" >>),
       F(<< "/kustomize", "/", "infra", "/", "kustomization", ".yaml" >>) >>

FluxArgs ==
    [version   : KubeconformVersions,
     clusters  : { << D(<< "/clusters" >>) >>, FluxClustersTree },
     kustomize : { << D(<< "/kustomize" >>) >>, FluxKustomizeTree }]

\* -name "*.y*ml" on the names of the trees: those ending in .yaml or .yml
FluxYamlName(base) == base # << >> /\ base[Len(base)] \in { ".yaml", ".yml" }

\* the tests both find commands share (lines 127 and 132):
\* -type f ! \( -path "*/terraform/*" -o -path "*/.github/*"
\*              -o -name ".tfsec.yaml" -o -name ".pre-commit-config.yaml" \)
FluxKept(ent) ==
    /\ ent.type = "f"
    /\ ~ Glob(<< "*", "/", "terraform", "/", "*" >>, ent.path)
    /\ ~ Glob(<< "*", "/", ".github", "/", "*" >>, ent.path)
    /\ BaseName(ent.path) # << ".tfsec", ".yaml" >>
    /\ BaseName(ent.path) # << ".pre-commit-config", ".yaml" >>

FluxPaths(ents) == [i \in 1..Len(ents) |-> ents[i].path]

\* $(find /clusters -type f -name "*.y*ml" ! \( ... \)), line 127
FluxFindClusters(tree) ==
    WordSplit(FluxPaths(SelectSeq(tree,
        LAMBDA e : FluxKept(e) /\ FluxYamlName(BaseName(e.path)))))

\* $(find /kustomize -type f -name "kustomization.yaml" ! \( ... \)), line 132
FluxFindKustomize(tree) ==
    WordSplit(FluxPaths(SelectSeq(tree,
        LAMBDA e : FluxKept(e) /\ BaseName(e.path) = << "kustomization", ".yaml" >>)))

FluxKubeconformArgs ==
    << "-strict", "-summary", "-ignore-missing-schemas", "-schema-location", "default",
       "--schema-location", "/flux-crd-schemas" >>

\* lines 91-107 and 142-144: nothing is fetched or built before Stdout(ctx)
\* asks for the output of the script; a download, the image or a mount that
\* fails makes Stdout return an error.  Otherwise the script starts and
\* evaluates the word list of its first loop (line 127)
Flux_Exec ==
    /\ pc = "flux"
    /\ \E built \in (IF ctx = "cancelled" THEN { FALSE } ELSE BOOLEAN) :
         IF ~ built
         THEN /\ ret' = ErrRet
              /\ pc' = "done"
              /\ UNCHANGED <<words, wi>>
         ELSE /\ words' = FluxFindClusters(fluxDirs.clusters)
              /\ wi' = 1
              /\ pc' = "flux_clusters"
              /\ UNCHANGED ret
    /\ UNCHANGED <<inputs, ctr, dirs, crdIdx, probes, clones, sh, fs, ARGS, located,
                   invoked, stage, exitStatus>>

\* one iteration of the loop of lines 127-129:
\* bash -c 'process_file "$0"' $file || exit 1, where process_file (lines
\* 117-123) exits 1 when the validator exits non-zero
Flux_ClustersIter ==
    /\ pc = "flux_clusters"
    /\ wi <= Len(words)
    /\ \E valid \in BOOLEAN :
         LET failed == IF valid THEN { } ELSE { "kubeconform" }
             run == [file   |-> words[wi],
                     tools  |-> << "kubeconform" >>,
                     build  |-> << >>,
                     input  |-> words[wi],
                     args   |-> FluxKubeconformArgs,
                     failed |-> failed,
                     passed |-> valid]
         IN  /\ invoked' = Append(invoked, run)
             /\ IF valid
                THEN /\ wi' = wi + 1
                     /\ UNCHANGED <<pc, exitStatus>>
                ELSE /\ exitStatus' = 1
                     /\ pc' = "exited"
                     /\ UNCHANGED wi
    /\ fs' = [fs EXCEPT !.stdout = fs.stdout \o << "Processing file" >>]
    /\ UNCHANGED <<inputs, ctr, dirs, crdIdx, probes, clones, sh, ARGS, located, words,
                   stage, ret>>

\* the first loop is over: the word list of the second loop (line 132)
Flux_ClustersEnd ==
    /\ pc = "flux_clusters"
    /\ wi > Len(words)
    /\ words' = FluxFindKustomize(fluxDirs.kustomize)
    /\ wi' = 1
    /\ pc' = "flux_kustomize"
    /\ UNCHANGED <<inputs, ctr, dirs, crdIdx, probes, clones, sh, fs, ARGS, located,
                   invoked, stage, exitStatus, ret>>

\* the status bash gives the pipeline of line 134: the script sets -e (line
\* 110) and never pipefail, so it is the status of the last command
FluxPipelineStatus(buildOk, valid) == valid

\* one iteration of the loop of lines 132-138:
\* kustomize build $(dirname $file) | /work/kubeconform ... -
\* A pipeline that fails ends the script at once (set -e; the test of lines
\* 135-137 says the same); one that succeeds lets the loop go on
Flux_KustomizeIter ==
    /\ pc = "flux_kustomize"
    /\ wi <= Len(words)
    /\ \E buildOk \in BOOLEAN, valid \in BOOLEAN :
         LET failed == (IF buildOk THEN { } ELSE { "kustomize" })
                         \cup (IF valid THEN { } ELSE { "kubeconform" })
             status == FluxPipelineStatus(buildOk, valid)
             run == [file   |-> words[wi],
                     tools  |-> << "kustomize", "kubeconform" >>,
                     build  |-> DirName(words[wi]),
                     input  |-> << "-" >>,
                     args   |-> FluxKubeconformArgs,
                     failed |-> failed,
                     passed |-> status]
         IN  /\ invoked' = Append(invoked, run)
             /\ IF status
                THEN /\ wi' = wi + 1
                     /\ UNCHANGED <<pc, exitStatus>>
                ELSE /\ exitStatus' = 1
                     /\ pc' = "exited"
                     /\ UNCHANGED wi
    /\ fs' = [fs EXCEPT !.stdout = fs.stdout \o << "Processing kustomization.yaml file" >>]
    /\ UNCHANGED <<inputs, ctr, dirs, crdIdx, probes, clones, sh, ARGS, located, words,
                   stage, ret>>

\* the second loop is over: the script ends with status 0
Flux_KustomizeEnd ==
    /\ pc = "flux_kustomize"
    /\ wi > Len(words)
    /\ exitStatus' = 0
    /\ pc' = "exited"
    /\ UNCHANGED <<inputs, ctr, dirs, crdIdx, probes, clones, sh, fs, ARGS, located, words,
                   wi, invoked, stage, ret>>

\* lines 142-144: Validate returns what Stdout(ctx) returns
Flux_Return ==
    /\ pc = "exited"
    /\ ret' = IF exitStatus # 0 THEN ErrRet
              ELSE [done |-> TRUE, stdout |-> fs.stdout, err |-> FALSE]
    /\ pc' = "done"
    /\ UNCHANGED <<inputs, ctr, dirs, crdIdx, probes, clones, sh, fs, ARGS, located, words,
                   wi, invoked, stage, exitStatus>>

----------------------------------------------------------------------------
(* Cancellation of the context by the caller of Validate *)

\* the positions at which Validate is blocked in Stdout(ctx), the script running
ScriptPcs == { "sh_options", "sh_convert", "sh_args", "sh_locate", "sh_loop" }

\* The caller cancels ctx.  Stdout(ctx) (line 384) is the call that takes
\* the context: cancelled while the script runs, it returns an error and
\* Validate returns "" and that error (lines 385-387).  No other call of
\* Validate reads ctx: isAnArchive passes it to archives.Identify only, its
\* http.Get(url) of line 120 takes no context
Cancel ==
    /\ ctx = "live"
    /\ pc # "done"
    /\ ctx' = "cancelled"
    /\ IF pc \in ScriptPcs
       THEN /\ ret' = ErrRet
            /\ pc' = "done"
       ELSE UNCHANGED <<ret, pc>>
    /\ UNCHANGED <<kustomize, flux, catalog, exclude, crds, env, manifests, tf, fluxDirs,
                   ctr, dirs, crdIdx, probes, clones, sh, fs, ARGS, located, words, wi,
                   invoked, stage, exitStatus>>

----------------------------------------------------------------------------
(* Specifications *)

NoStage == [env |-> "none", classify |-> "none", materialize |-> "none",
            convert |-> "none", validate |-> "none"]

InitState ==
    /\ ctr = EmptyCtr
    /\ dirs = << >>
    /\ crdIdx = 1
    /\ probes = << >>
    /\ clones = << >>
    /\ sh = NoSh
    /\ fs = NoFs
    /\ ARGS = << >>
    /\ located = << >>
    /\ words = << >>
    /\ wi = 0
    /\ invoked = << >>
    /\ stage = NoStage
    /\ exitStatus = -1
    /\ ret = NoRet

\* a call of Validate with any arguments; the calls with several CRD sources
\* are made on one manifest tree, without exclusions
Init ==
    /\ kustomize \in BOOLEAN
    /\ flux \in BOOLEAN
    /\ catalog \in BOOLEAN
    /\ exclude \in RunExcludes
    /\ crds \in SeqsUpTo(RunURLs, MaxCrds)
    /\ env \in EnvLists
    /\ manifests \in Trees
    /\ Len(crds) > 1 => (exclude = << >> /\ manifests = TreeApp)
    /\ tf = NoTf
    /\ ctx = "live"
    /\ fluxDirs = NoFluxDirs
    /\ pc = "image"
    /\ InitState

Next ==
    \/ kubeConformImage
    \/ crdDirsIter
    \/ crdDirsReturn
    \/ Mount
    \/ Exec
    \/ ScriptOptions
    \/ ScriptConvert
    \/ ScriptArgs
    \/ ScriptLocate
    \/ ScriptIter
    \/ ScriptEnd
    \/ ValidateReturn

Spec == Init /\ [][Next]_vars

\* crdDirs on one source URL, after kubeConformImage has returned a container
InitCrd ==
    /\ kustomize = FALSE
    /\ flux = FALSE
    /\ catalog = FALSE
    /\ exclude = << >>
    /\ crds \in { << u >> : u \in GeneratedURLs }
    /\ env = << >>
    /\ manifests = TreeEmpty
    /\ tf = NoTf
    /\ ctx = "live"
    /\ fluxDirs = NoFluxDirs
    /\ pc = "crdDirs"
    /\ InitState

NextCrd ==
    \/ crdDirsIter
    \/ crdDirsReturn
    \/ Mount

SpecCrd == InitCrd /\ [][NextCrd]_vars

\* find_manifests on any tree and exclude string, in both modes, from the
\* point where the script evaluates the word list of its loop
InitFind ==
    /\ kustomize \in BOOLEAN
    /\ flux = FALSE
    /\ catalog = FALSE
    /\ \/ exclude \in GeneratedExcludes /\ manifests \in Trees
       \/ exclude \in DocExcludes /\ manifests = TreeDocs
    /\ crds = << >>
    /\ env = << >>
    /\ tf = NoTf
    /\ ctx = "live"
    /\ fluxDirs = NoFluxDirs
    /\ pc = "sh_locate"
    /\ ctr = [EmptyCtr EXCEPT !.script = TRUE]
    /\ dirs = << >>
    /\ crdIdx = 1
    /\ probes = << >>
    /\ clones = << >>
    /\ sh = [kustomize |-> IF kustomize THEN << "1" >> ELSE << "0" >>,
             manifests_dir |-> << "." >>, flux |-> << >>, catalog |-> << >>,
             exclude |-> exclude]
    /\ fs = [NoFs EXCEPT !.work = Append(manifests, ScriptFile), !.schemasDir = TRUE]
    /\ ARGS = BaseArgs \o << "--schema-location", LocalTemplate >>
    /\ located = << >>
    /\ words = << >>
    /\ wi = 0
    /\ invoked = << >>
    /\ stage = [NoStage EXCEPT !.env = "ok", !.classify = "ok", !.materialize = "ok",
                               !.convert = "ok"]
    /\ exitStatus = -1
    /\ ret = NoRet

NextFind == ScriptLocate

SpecFind == InitFind /\ [][NextFind]_vars

\* a call of PreCommitTf.Run with any arguments
InitPct ==
    /\ kustomize = FALSE
    /\ flux = FALSE
    /\ catalog = FALSE
    /\ exclude = << >>
    /\ crds = << >>
    /\ env = << >>
    /\ manifests = TreeEmpty
    /\ tf \in [version : Versions, dir : Trees, tfBinary : TfBinaries,
                cache_dir : BOOLEAN]
    /\ ctx = "live"
    /\ fluxDirs = NoFluxDirs
    /\ pc = "run"
    /\ InitState

NextPct ==
    \/ Run_Container
    \/ Run_Env
    \/ Run_Exec

SpecPct == InitPct /\ [][NextPct]_vars

\* calls of Validate on the documented exclude strings, on an empty tree
\* and on a tree with a blank in a directory name
InitLoop ==
    /\ kustomize \in BOOLEAN
    /\ flux \in BOOLEAN
    /\ catalog = FALSE
    /\ \/ exclude \in DocExcludes /\ manifests = TreeDocs
       \/ exclude = << >> /\ manifests \in { TreeSplit, TreeEmpty }
    /\ crds \in { << >>, << U_blob >> }
    /\ env = << >>
    /\ tf = NoTf
    /\ ctx = "live"
    /\ fluxDirs = NoFluxDirs
    /\ pc = "image"
    /\ InitState

SpecLoop == InitLoop /\ [][Next]_vars

\* a call of Flux.Validate with any arguments
InitFlux ==
    /\ kustomize = FALSE
    /\ flux = FALSE
    /\ catalog = FALSE
    /\ exclude = << >>
    /\ crds = << >>
    /\ env = << >>
    /\ manifests = TreeEmpty
    /\ tf = NoTf
    /\ ctx = "live"
    /\ fluxDirs \in FluxArgs
    /\ pc = "flux"
    /\ InitState

NextFlux ==
    \/ Flux_Exec
    \/ Flux_ClustersIter
    \/ Flux_ClustersEnd
    \/ Flux_KustomizeIter
    \/ Flux_KustomizeEnd
    \/ Flux_Return

SpecFlux == InitFlux /\ [][NextFlux]_vars

\* a call of Validate whose context the caller may cancel at any moment
InitCtx ==
    /\ kustomize \in BOOLEAN
    /\ flux = FALSE
    /\ catalog = FALSE
    /\ exclude = << >>
    /\ crds \in SeqsUpTo(RunURLs, MaxCrds)
    /\ env = << >>
    /\ manifests = TreeApp
    /\ tf = NoTf
    /\ ctx = "live"
    /\ fluxDirs = NoFluxDirs
    /\ pc = "image"
    /\ InitState

NextCtx ==
    \/ Next
    \/ Cancel

SpecCtx == InitCtx /\ [][NextCtx]_vars

----------------------------------------------------------------------------
(* Properties *)

Finished == ret.done

\* C1: in the run script, in Plain and in Kustomize mode, a failed validation
\* is the last pipeline the loop runs - no later word of the list reaches
\* the validator - and the script exits non-zero, so Validate returns an error.
C1_FailFast ==
    \A i \in 1..Len(invoked) :
        ~ invoked[i].passed =>
            /\ i = Len(invoked)
            /\ exitStatus = 1
            /\ pc \in { "exited", "done" }
            /\ (Finished => ret.err)

\* a Kustomize-mode run whose first of two kustomizations failed
C1_Witness ==
    /\ Finished
    /\ kustomize
    /\ Len(words) = 2
    /\ Len(invoked) = 1
    /\ ~ invoked[1].passed
    /\ invoked[1].build = << ".", "/", "app" >>

\* C2: Validate returns a nil error exactly when the env pairs parsed, the
\* CRD sources were classified and materialized, the CRD conversion did not
\* abort and every pipeline run for a file passed; the script exits 0 exactly
\* when the conversion did not abort and every verdict is a success.
C2_NilIffAllSucceeded ==
    /\ Finished =>
         ( ~ ret.err <=>
             /\ stage.env = "ok"
             /\ stage.classify = "ok"
             /\ stage.materialize = "ok"
             /\ stage.convert = "ok"
             /\ \A i \in 1..Len(invoked) : invoked[i].passed )
    /\ exitStatus # -1 =>
         ( exitStatus = 0 <=>
             /\ stage.convert = "ok"
             /\ \A i \in 1..Len(invoked) : invoked[i].passed )

\* a successful run with a CRD source and two validated files
C2_Witness ==
    /\ Finished
    /\ ~ ret.err
    /\ Len(dirs) >= 1
    /\ fs.schemas # << >>
    /\ Len(invoked) >= 2

\* the entries of the exclude string as the caller wrote them: the fields
\* between the commas, without the blanks around them
ExcludeEntries(exclude_string) ==
    LET fields == Split(exclude_string, ",") IN
    { Trim(fields[i], " ") : i \in 1..Len(fields) } \ { << >> }

\* C3: find_manifests never returns a file that lies under a directory
\* matched by an entry of the exclude string, whatever the file's name.
C3_NoFileUnderExcludedDir ==
    pc = "sh_loop" =>
        \A i \in 1..Len(located) :
            \A e \in ExcludeEntries(sh.exclude) :
                \A d \in Ancestors(located[i]) : ~ Glob(e, d)

\* C4: the tools run for a file are determined by the arguments kustomize
\* and flux of Validate: the validator alone on the file when kustomize is
\* false; kustomize build of the file's directory piped into the validator
\* when kustomize is true and flux false; build, flux envsubst, validator
\* when both are true.  In Kustomize mode the validator reads standard input.
C4_PipelineFromFlags ==
    \A i \in 1..Len(invoked) :
        LET r == invoked[i] IN
        /\ ~ kustomize =>
              /\ r.tools = << "kubeconform" >>
              /\ r.input = r.file
        /\ (kustomize /\ ~ flux) =>
              /\ r.tools = << "kustomize", "kubeconform" >>
              /\ r.build = DirName(r.file)
              /\ r.input = << "-" >>
        /\ (kustomize /\ flux) =>
              /\ r.tools = << "kustomize", "flux", "kubeconform" >>
              /\ r.build = DirName(r.file)
              /\ r.input = << "-" >>

\* C5: a github.com URL with path owner/repo/tree/branch/config/crd is a
\* repository for isGitRepo; parseGitURL gives the clone URL
\* https://github.com/owner/repo.git, the branch and the subdirectory
\* config/crd; crdDirs requests that clone at that branch and projects that
\* subdirectory, without any HTTP probe.
C5_TreeURLDecomposed ==
    \A o \in Names, r \in Names, b \in Names :
        crds = << MkURL(GitHub, << o, r, << "tree" >>, b, << "config" >>, << "crd" >> >>) >> =>
            LET clone == << "https://", "github.com", "/" >> \o o \o << "/" >> \o r \o << ".git" >> IN
            /\ isGitRepo(crds[1]) = [ok |-> TRUE, err |-> FALSE]
            /\ parseGitURL(crds[1]) = [err |-> FALSE, repoURL |-> clone, branch |-> b,
                                       subdir |-> << "config", "/", "crd" >>]
            /\ crdIdx > 1 =>
                 /\ dirs = << [kind |-> "git", url |-> clone, branch |-> b,
                               sub |-> << "config", "/", "crd" >>] >>
                 /\ clones = << clone >>
                 /\ probes = << >>

\* the tree URL of owner "owner", repository "repo", branch "main" has been
\* turned into a directory and mounted
C5_Witness ==
    /\ crds = << MkURL(GitHub, << << "owner" >>, << "repo" >>, << "tree" >>, << "main" >>,
                                 << "config" >>, << "crd" >> >>) >>
    /\ pc = "exec"
    /\ Len(dirs) = 1

\* the path segments of a URL: the parts between the slashes of its path,
\* the slashes at both ends of the path set aside
Segments(u) == Split(Trim(urlParse(u).Path, "/"), "/")

\* C6: isGitRepo is false for every github.com URL whose third path segment
\* is blob or releases and for every URL of another host; crdDirs then
\* issues the archive probe on that URL.
C6_BlobReleasesOtherHost ==
    \A i \in 1..Len(crds) :
        LET u == crds[i]
            segs == Segments(u)
        IN
        ( /\ ~ urlParse(u).err
          /\ \/ Hostname(urlParse(u)) # << "github.com" >>
             \/ /\ Len(segs) >= 3
                /\ segs[3] \in { << "blob" >>, << "releases" >> } )
        => /\ isGitRepo(u) = [ok |-> FALSE, err |-> FALSE]
           /\ (crdIdx > i \/ (crdIdx = i /\ pc = "done")) =>
                 \E k \in 1..Len(probes) : probes[k].url = u

\* a releases URL of github.com has been probed
C6_Witness ==
    /\ Len(crds) = 1
    /\ Hostname(urlParse(crds[1])) = << "github.com" >>
    /\ Len(Segments(crds[1])) >= 3
    /\ Segments(crds[1])[3] = << "releases" >>
    /\ Len(probes) = 1
    /\ probes[1].url = crds[1]

\* the run was aborted inside crdDirs: nil directories, an error from Validate
CrdDirsAborted ==
    /\ pc = "done"
    /\ dirs = << >>
    /\ ret = ErrRet
    /\ ctr.mounts = << >>

\* C7 as stated: a Repository URL whose path has fewer than 5 segments
\* [owner, repo, "tree", branch, ...subdir] gives a format error that aborts
\* crdDirs.
C7_FewerThanFiveSegments ==
    \A i \in 1..Len(crds) :
        ( /\ isGitRepo(crds[i]).ok
          /\ Len(Segments(crds[i])) < 5
          /\ (crdIdx > i \/ pc # "crdDirs") )
        => /\ parseGitURL(crds[i]).err
           /\ CrdDirsAborted

\* the number of "/" of the path of a URL
Slashes(u) == Len(SelectSeq(urlParse(u).Path, LAMBDA t : t = "/"))

\* C7 amended: a Repository URL whose path holds fewer than four "/" - fewer
\* than 5 parts when the empty text before the leading slash is counted, so
\* fewer than the 4 segments [owner, repo, "tree", branch] - gives a format
\* error that aborts crdDirs with no directory returned.
C7_FewerThanFourSlashes ==
    \A i \in 1..Len(crds) :
        ( /\ isGitRepo(crds[i]).ok
          /\ Slashes(crds[i]) < 4
          /\ (crdIdx > i \/ pc # "crdDirs") )
        => /\ parseGitURL(crds[i]).err
           /\ CrdDirsAborted

\* crdDirs was aborted on a Repository URL of three segments
C7_Witness ==
    /\ Len(crds) = 1
    /\ isGitRepo(crds[1]).ok
    /\ Len(Segments(crds[1])) = 3
    /\ CrdDirsAborted
    /\ probes = << >>

\* C8: for a source that is not a Repository, isAnArchive returns (true, nil)
\* when the format of the body is identified, (false, nil) when no format
\* matched - the source is then a raw file - and an error only for another
\* failure.
C8_ArchiveOrRawFile ==
    \A k \in 1..Len(probes) :
        LET o == probes[k].outcome
            r == isAnArchive(o)
        IN
        /\ o \in { "archive", "compression_only" } => r = [ok |-> TRUE, err |-> FALSE]
        /\ o = "no_match" =>
              /\ r = [ok |-> FALSE, err |-> FALSE]
              /\ k <= Len(dirs)
              /\ dirs[k].kind = "file"
        /\ r.err => o \in { "get_error", "non200", "identify_error" }

\* C9: when crdDirs succeeds it returns one directory per source URL, in the
\* order of the URLs, and Validate mounts directory number i (from 0) at
\* /crds/<i>: the mount paths are pairwise distinct.
C9_OneDirPerSourceInOrder ==
    stage.classify = "ok" =>
        /\ Len(dirs) = Len(crds)
        /\ pc \in { "mount", "exec" } =>
              \A i \in 1..Len(dirs) :
                  LET g == isGitRepo(crds[i]) IN
                  IF g.ok
                  THEN /\ dirs[i].kind = "git"
                       /\ dirs[i].url = parseGitURL(crds[i]).repoURL
                  ELSE /\ dirs[i].kind \in { "archive", "file" }
                       /\ dirs[i].url = crds[i]
        /\ pc \notin { "crdDirs", "mount" } =>
              /\ Len(ctr.mounts) = Len(dirs)
              /\ \A i \in 1..Len(dirs) :
                    /\ ctr.mounts[i].path = << "/crds/" >> \o Itoa(i - 1)
                    /\ ctr.mounts[i].dir = dirs[i]
              /\ \A i \in 1..Len(dirs), j \in 1..Len(dirs) :
                    i # j => ctr.mounts[i].path # ctr.mounts[j].path

\* two different sources, a probed file and a repository, are mounted
C9_Witness ==
    /\ pc = "exec"
    /\ Len(ctr.mounts) = 2
    /\ ctr.mounts[1].dir.kind # "git"
    /\ ctr.mounts[2].dir.kind = "git"

\* C10: when the classification or the decomposition of one CRD source
\* fails, crdDirs returns no directory at all, Validate returns an error and
\* neither the CRD conversion nor a validation is run: such a call never
\* reaches the mounting, and when it has returned nothing was mounted,
\* converted or validated.
C10_NoPartialSchemaSet ==
    LET failsAlways(u) == LET g == isGitRepo(u) IN
                          g.err \/ (g.ok /\ parseGitURL(u).err)
        someFails == \E i \in 1..Len(crds) : failsAlways(crds[i])
        probeFailed == \E k \in 1..Len(probes) : isAnArchive(probes[k].outcome).err
    IN  /\ pc \in { "mount", "exec" } => ~ someFails /\ ~ probeFailed
        /\ (Finished /\ (probeFailed \/ someFails))
           => /\ dirs = << >>
              /\ ret.err
              /\ ret.stdout = << >>
              /\ ctr.mounts = << >>
              /\ fs = NoFs
              /\ invoked = << >>
              /\ stage.convert = "none"
              /\ exitStatus = -1

\* the second of two sources failed after the first had given a directory
C10_Witness ==
    /\ Len(crds) = 2
    /\ isGitRepo(crds[1]).ok
    /\ ~ parseGitURL(crds[1]).err
    /\ stage.classify = "failed"
    /\ crdIdx = 2
    /\ Finished

\* the values of the schema-location options of an argument list, in order
SchemaLocations(args) ==
    LET idx == SelectSeq([i \in 1..Len(args) |-> i],
                         LAMBDA i : i > 1 /\ args[i - 1] \in { "-schema-location",
                                                               "--schema-location" })
    IN  [k \in 1..Len(idx) |-> args[idx[k]]]

\* the validator arguments have been built
ArgsBuilt == ARGS # << >>

\* C11: the local schema-location template is among the validator arguments
\* if and only if the schema directory /schemas holds at least one file.
C11_LocalIffSchemas ==
    ArgsBuilt =>
        ( (\E k \in 1..Len(SchemaLocations(ARGS)) : SchemaLocations(ARGS)[k] = LocalTemplate)
          <=> fs.schemas # << >> )

\* C12: the schema-location list starts with "default"; the catalog template
\* is in it if and only if Validate was called with catalog, and then it is
\* the last location, after "default" and after the local template; a script
\* started without --catalog or without --flux gets through the building of
\* the arguments.
C12_DefaultFirstCatalogIffFlag ==
    LET locs == SchemaLocations(ARGS)
        has(x) == \E k \in 1..Len(locs) : locs[k] = x
    IN
    /\ ArgsBuilt =>
          /\ locs # << >>
          /\ locs[1] = "default"
          /\ has(CatalogTemplate) <=> catalog
          /\ has(CatalogTemplate) =>
                /\ locs[Len(locs)] = CatalogTemplate
                /\ \A k \in 1..Len(locs) :
                      locs[k] \in { "default", LocalTemplate } => k < Len(locs)
    /\ (pc = "exited" /\ stage.convert = "ok" /\ invoked = << >>) => exitStatus = 0

\* no CustomResourceDefinition document among the files of /crds
PoolWithoutCrd ==
    \A i \in 1..Len(fs.pool) : fs.pool[i].kind # "CustomResourceDefinition"

\* C13: when no CRD source was supplied, or the sources hold no
\* CustomResourceDefinition document, the conversion block does not abort the
\* script: once it has run (a crash of the converter itself set aside),
\* /schemas exists and is empty and the script goes on to the validation.
C13_EmptyPoolIsNotAnError ==
    ( /\ stage.convert \notin { "none", "converter_failed" }
      /\ PoolWithoutCrd )
    => /\ stage.convert = "ok"
       /\ fs.schemasDir
       /\ fs.schemas = << >>
       /\ pc \in { "sh_args", "sh_locate", "sh_loop" } \/ exitStatus # -1

\* C14: openapi2jsonschema.py is run on a .yaml/.yml file of /crds only if
\* the kind of that file is CustomResourceDefinition; the other files add no
\* file to /schemas.
C14_ConverterOnCrdOnly ==
    /\ \A i \in 1..Len(fs.converted) :
          /\ IsYamlName(fs.converted[i].name)
          /\ fs.converted[i].kind = "CustomResourceDefinition"
    /\ \A i \in 1..Len(fs.pool) :
          fs.pool[i].kind # "CustomResourceDefinition" =>
             \A k \in 1..Len(fs.schemas) :
                BaseName(fs.schemas[k].path) # SchemaOf(fs.pool[i])

\* an entry of env that does not split on ":" into exactly two parts
MalformedEnv == \E i \in 1..Len(env) : Len(Split(env[i], ":")) # 2

\* C15: with a malformed env entry Validate returns an error from the image
\* step: no CRD source has been classified or probed, no clone requested,
\* nothing mounted, the script never started and no validator run.
C15_MalformedEnvRejectedFirst ==
    (MalformedEnv /\ pc # "image") =>
        /\ Finished
        /\ ret = ErrRet
        /\ stage = [NoStage EXCEPT !.env = "failed"]
        /\ crdIdx = 1
        /\ probes = << >>
        /\ clones = << >>
        /\ dirs = << >>
        /\ ctr = EmptyCtr
        /\ fs = NoFs
        /\ invoked = << >>
        /\ exitStatus = -1

\* a call with CRD sources whose env has a well-formed entry before the
\* malformed one has returned
C15_Witness ==
    /\ MalformedEnv
    /\ Finished
    /\ crds # << >>
    /\ Len(env) = 2
    /\ Len(Split(env[1], ":")) = 2

\* a source URL that url.Parse rejects, or a Repository URL that parseGitURL
\* rejects
BadSource(u) ==
    LET g == isGitRepo(u) IN g.err \/ (g.ok /\ parseGitURL(u).err)

SomeBadSource == \E i \in 1..Len(crds) : BadSource(crds[i])

\* the position of the first bad source of the list
FirstBad ==
    CHOOSE i \in 1..Len(crds) :
        BadSource(crds[i]) /\ \A j \in 1..(i - 1) : ~ BadSource(crds[j])

\* C16 as stated: with a bad URL anywhere in the list the run aborts and no
\* archive probe has been made for any source, those before the bad one
\* included.
C16_NoFetchAtAll ==
    (SomeBadSource /\ pc \notin { "image", "crdDirs" }) =>
        /\ CrdDirsAborted
        /\ probes = << >>

\* C16 amended: with a bad URL in the list the run aborts inside crdDirs, at
\* the first bad URL or at a failed probe before it, with nothing mounted and
\* no script run; the sources are handled in order, so the only probes made
\* are for sources that precede the first bad one - none for the bad source
\* or a later one.
C16_NoFetchFromBadSourceOn ==
    SomeBadSource =>
        /\ crdIdx <= FirstBad
        /\ Len(probes) < FirstBad
        /\ \A k \in 1..Len(probes) :
              \E j \in 1..(FirstBad - 1) : probes[k].url = crds[j]
        /\ pc \notin { "image", "crdDirs" } =>
              /\ CrdDirsAborted
              /\ fs = NoFs
              /\ invoked = << >>
              /\ exitStatus = -1

\* the first source was probed and accepted, the second was a bad URL
C16_Witness ==
    /\ Len(crds) = 2
    /\ ~ BadSource(crds[1])
    /\ BadSource(crds[2])
    /\ Len(probes) = 1
    /\ probes[1].url = crds[1]
    /\ ~ isAnArchive(probes[1].outcome).err
    /\ crdIdx = 2
    /\ CrdDirsAborted

\* C17 as stated: a Failure verdict comes only from the validator rejecting
\* a resource; nothing else in the pipeline of a file produces one.
C17_FailureOnlyFromValidator ==
    \A i \in 1..Len(invoked) :
        /\ \E k \in 1..Len(invoked[i].args) : invoked[i].args[k] = "-ignore-missing-schemas"
        /\ ~ invoked[i].passed => invoked[i].failed = { "kubeconform" }

\* C17 amended: the verdict of a file is Failure exactly when a command of
\* its pipeline exits non-zero - kustomize build or flux envsubst in Kustomize
\* mode, or the validator - and every validator invocation carries
\* -ignore-missing-schemas, so a missing schema alone does not fail it.
C17_FailureFromAnyPipelineCommand ==
    \A i \in 1..Len(invoked) :
        LET r == invoked[i] IN
        /\ \E k \in 1..Len(r.args) : r.args[k] = "-ignore-missing-schemas"
        /\ r.failed \subseteq { r.tools[k] : k \in 1..Len(r.tools) }
        /\ ~ r.passed <=> r.failed # { }
        /\ ~ r.passed => (i = Len(invoked) /\ exitStatus = 1)
        /\ (r.passed /\ pc = "done") => (i < Len(invoked) \/ exitStatus = 0)

\* a kustomization whose build failed while the validator did not was
\* reported as failed
C17_Witness ==
    /\ Finished
    /\ ret.err
    /\ Len(invoked) = 1
    /\ invoked[1].failed = { "kustomize" }
    /\ ~ invoked[1].passed

\* an entry of the exclude string names a path when it matches it as find
\* would (-path), or when it is written relative to the manifest root,
\* without the leading "./"
NamesPath(e, path) == Glob(e, path) \/ Glob(<< ".", "/" >> \o e, path)

\* C18: a file is left out of the result of find_manifests when an entry of
\* the exclude string matches its path or its base name, or names the file
\* or a directory above it under the manifest root (entries with a blank
\* inside are set aside).
C18_PathOrNameExcluded ==
    pc = "sh_loop" =>
        \A i \in 1..Len(located) :
            \A e \in { x \in ExcludeEntries(sh.exclude) : RemoveBlanks(x) = x } :
                /\ ~ Glob(e, BaseName(located[i]))
                /\ ~ NamesPath(e, located[i])
                /\ \A d \in Ancestors(located[i]) : ~ NamesPath(e, d)

\* the regular files of a tree whose base name matches a pattern of the mode
Included(tree, kz) ==
    { tree[i].path : i \in { j \in 1..Len(tree) :
        /\ tree[j].type = "f"
        /\ IF kz THEN BaseName(tree[j].path) \in { << "kustomization", ".yaml" >>,
                                                   << "kustomization", ".yml" >> }
                 ELSE \/ Glob(<< "*", ".yaml" >>, BaseName(tree[j].path))
                      \/ Glob(<< "*", ".yml" >>, BaseName(tree[j].path)) } }

\* C20: with an empty exclude string find_manifests returns exactly the
\* regular files whose base name matches *.yaml or *.yml (Plain mode) or is
\* kustomization.yaml or kustomization.yml (Kustomize mode), each once, and
\* no directory.
C20_ExactlyTheMatchingFiles ==
    (pc = "sh_loop" /\ sh.exclude = << >>) =>
        /\ { located[i] : i \in 1..Len(located) } = Included(fs.work, kustomize)
        /\ \A i \in 1..Len(located), j \in 1..Len(located) :
              located[i] = located[j] => i = j
        /\ \A i \in 1..Len(located) : ~ \E k \in 1..Len(fs.work) : fs.work[k] = D(located[i])

\* Plain mode on the tree with a directory named conf.yaml: four files found,
\* the directory is not among them
C20_Witness ==
    /\ pc = "sh_loop"
    /\ sh.exclude = << >>
    /\ ~ kustomize
    /\ manifests = TreeDocs
    /\ Len(located) = 4
    /\ \A i \in 1..Len(located) : located[i] # << ".", "/", "conf", ".yaml" >>

\* the entrypoint "run -a" has been started
RunStarted == tf # NoTf /\ pc = "done" /\ exitStatus # -1

\* C19: in the container that executes "run -a" the variable PCT_TFPATH has
\* the value of tfBinary, and TF_PLUGIN_CACHE_DIR is set, to /tf_cache, if
\* and only if a cache directory was given.
C19_TfPathAndCacheDir ==
    RunStarted =>
        /\ sh.PCT_TFPATH = [set |-> TRUE, value |-> tf.tfBinary]
        /\ sh.TF_PLUGIN_CACHE_DIR.set <=> tf.cache_dir
        /\ sh.TF_PLUGIN_CACHE_DIR.set => sh.TF_PLUGIN_CACHE_DIR.value = << "/tf_cache" >>

C22_BodyDrainedAndClosed ==
    \A k \in 1..Len(probes) :
        /\ isAnArchive(probes[k].outcome) = [ok |-> FALSE, err |-> FALSE]
              => probes[k].body.drained
        /\ probes[k].body.opened => probes[k].body.closed

\* C23: once the context is cancelled no step of the run goes on as if it
\* were live: a probe made with the cancelled context is aborted - it comes
\* back as a failed request and Validate returns an error - and no validator
\* is started.
C23_CancelledContextAborts ==
    [][ ctx = "cancelled" =>
          /\ invoked' = invoked
          /\ probes' # probes =>
                /\ probes'[Len(probes')].outcome = "get_error"
                /\ pc' = "done"
                /\ ret'.err ]_vars

\* the positions in crds of the sources that crdDirs hands to isAnArchive,
\* among the first n
RECURSIVE ProbedIndices(_)
ProbedIndices(n) ==
    IF n = 0 THEN << >>
    ELSE IF isGitRepo(crds[n]) = [ok |-> FALSE, err |-> FALSE]
         THEN Append(ProbedIndices(n - 1), n)
         ELSE ProbedIndices(n - 1)

\* what an invocation validated: the directory built in Kustomize mode, the
\* file in Plain mode, as the tree names them
Validated(run) == IF run.build # << >> THEN Resolve(run.build) ELSE Resolve(run.file)

\* C24: no retry and no partial result: the probes made are one per source,
\* in the order of the list - never a second probe of the same entry - no two
\* validator invocations validate the same manifest, and when a stage has
\* failed Validate returns the empty string and an error, whatever output
\* the files that passed had produced.
C24_NoRetryNoPartialResult ==
    /\ probes # << >> =>
          LET idx == ProbedIndices(IF crdIdx > Len(crds) THEN Len(crds) ELSE crdIdx)
          IN  /\ Len(probes) <= Len(idx)
              /\ \A k \in 1..Len(probes) : probes[k].url = crds[idx[k]]
    /\ Len(invoked) <= wi
    /\ \A i \in 1..Len(invoked) : \A j \in 1..Len(invoked) :
          i < j => Validated(invoked[i]) # Validated(invoked[j])
    /\ Finished =>
          /\ ( \/ stage.env \notin { "ok" }
               \/ stage.classify \notin { "ok" }
               \/ stage.convert \notin { "ok" }
               \/ \E i \in 1..Len(invoked) : ~ invoked[i].passed ) => ret.err
          /\ ret.err => ret.stdout = << >>

\* the number of entries of crds that crdDirs has dealt with: the loop
\* stops on the entry that fails
Processed ==
    IF stage.classify = "failed" THEN crdIdx ELSE crdIdx - 1

\* C25: the probe of isAnArchive is issued for a source exactly when
\* isGitRepo returned (false, nil) for it: the probes made are those of the
\* entries dealt with that isGitRepo rejected without error, a source kept
\* as a Repository or one whose URL does not parse is never probed, and a
\* probed source never becomes a Repository directory.
C25_ProbeIffNotRepository ==
    LET idx == ProbedIndices(Processed)
    IN  /\ Len(probes) = Len(idx)
        /\ \A k \in 1..Len(probes) : probes[k].url = crds[idx[k]]
        /\ \A i \in 1..Processed :
              LET g == isGitRepo(crds[i]) IN
              (g.ok \/ g.err) => \A k \in 1..Len(idx) : idx[k] # i
        /\ \A d \in 1..Len(dirs) :
              dirs[d].kind = "git" <=> isGitRepo(crds[d]).ok

\* a source on another host than github.com has been probed, found to be an
\* archive and kept as an Archive directory
C25_Witness ==
    /\ Len(crds) = 1
    /\ ~ urlParse(crds[1]).err
    /\ Hostname(urlParse(crds[1])) # << "github.com" >>
    /\ Len(probes) = 1
    /\ Len(dirs) = 1
    /\ dirs[1].kind = "archive"
    /\ clones = << >>

\* C26: isGitRepo and parseGitURL agree: for a source that isGitRepo keeps
\* as a repository and parseGitURL decomposes, the owner and the repository
\* of the clone URL are the first two path segments isGitRepo looked at, the
\* third segment is tree and the branch is the fourth; the directory
\* crdDirs builds is that clone at that branch.
C26_ClassifierAndParserAgree ==
    \A i \in 1..Len(crds) :
        LET u    == crds[i]
            segs == Segments(u)
            g    == parseGitURL(u)
        IN  (isGitRepo(u).ok /\ ~ g.err) =>
               /\ Len(segs) >= 4
               /\ segs[3] = << "tree" >>
               /\ g.repoURL = << "https://", "github.com", "/" >> \o segs[1]
                                 \o << "/" >> \o segs[2] \o << ".git" >>
               /\ g.branch = segs[4]
               /\ (crdIdx > i /\ i <= Len(dirs)) =>
                     /\ dirs[i].kind = "git"
                     /\ dirs[i].branch = segs[4]

\* C27: once the CRD conversion step is over, every file of /schemas is a
\* schema converted from a CRD document of /crds, and the manifest tree
\* under /work is the tree that was mounted: no file of the manifest root
\* was moved into /schemas or taken out of /work.
C27_ConversionLeavesManifests ==
    stage.convert # "none" =>
        LET produced == ConverterOutputs(ConverterInputs(fs.pool)) IN
        /\ \A i \in 1..Len(fs.schemas) :
              \E j \in 1..Len(produced) : fs.schemas[i] = produced[j]
        /\ \A i \in 1..Len(manifests) :
              \E j \in 1..Len(fs.work) : fs.work[j] = manifests[i]

\* C28: when find_manifests returns no file - an empty tree, no file of the
\* mode's patterns, or everything excluded - no validator is invoked, the
\* script ends with status zero and Validate returns its output without error.
C28_NothingLocatedIsSuccess ==
    (wi >= 1 /\ located = << >>) =>
        /\ invoked = << >>
        /\ pc = "exited" => exitStatus = 0
        /\ Finished => ret = [done |-> TRUE, stdout |-> fs.stdout, err |-> FALSE]

\* a finished run on a tree that holds files of the mode's patterns, every
\* one of them excluded
C28_Witness ==
    /\ Finished
    /\ ~ ret.err
    /\ wi >= 1
    /\ located = << >>
    /\ find_manifests(fs.work,
                      IF TestEq1(sh.kustomize) THEN KustomizePatterns ELSE PlainPatterns,
                      << >>) # << >>

\* C29: in a run where no validation failed, every path find_manifests
\* returned went through exactly one iteration of the loop, as one whole
\* path and in the order returned - paths with a blank inside included: there
\* are as many validator invocations as located files.
C29_OnePassPerLocatedPath ==
    (Finished /\ ~ ret.err /\ wi >= 1) =>
        /\ Len(invoked) = Len(located)
        /\ \A i \in 1..Len(invoked) :
              i <= Len(located) /\ invoked[i].file = located[i]

\* C30: in the script of Flux.Validate, a kustomization.yaml whose Kustomize
\* build or whose validation failed is the last one the loop handles: it is
\* not reported as passing, the script exits non-zero and Validate returns
\* an error.
C30_FluxBuildFailureStopsRun ==
    \A i \in 1..Len(invoked) :
        (invoked[i].tools = << "kustomize", "kubeconform" >> /\ invoked[i].failed # { }) =>
            /\ ~ invoked[i].passed
            /\ i = Len(invoked)
            /\ pc \in { "exited", "done" }
            /\ exitStatus # 0
            /\ Finished => ret = ErrRet

====
